---- MODULE Spec2Model ----
(***************************************************************************)
(* A model of the triangle-arbitrage pipeline of src/okx_trader.py:        *)
(*   - fetch_all_historical_triangle_data_incremental (chunked candle      *)
(*     retrieval, per-window inner join, incremental JSON output),         *)
(*   - fetch_triangle_market_data (live snapshot),                         *)
(*   - check_triangle_arbitrage (cycle factors and opportunity flags),     *)
(*   - backtest_triangle_arbitrage_minute (replay, portfolio, statistics). *)
(* Times are integers in milliseconds, as ccxt's parse8601 and candle[0]   *)
(* are.  Prices are integers; cycle factors, portfolio values and returns  *)
(* are exact fractions [num, den] in place of the floats of the code.      *)
(***************************************************************************)
EXTENDS Integers, Sequences, FiniteSets, TLC

\* ------------------------------------------------------------------ bounds
\* The requested range lies within [0, MaxMinutes) minutes.
MaxMinutes == 2
\* `limit` (candles per request) ranges over 1..MaxLimit.
MaxLimit == 2
\* `chunk_minutes` ranges over 1..MaxChunk.
MaxChunk == 2
\* Positive prices range over 1..MaxPrice.
MaxPrice == 3
\* Thresholds range, in halves, up to MaxThreshold/2.
MaxThreshold == 2
\* A backtest replays at most MaxRecords records.
MaxRecords == 3
\* A portfolio history handed to the drawdown loop has at most MaxHistory values.
MaxHistory == 4

\* Sub-windows of a build whose file layout is examined.
MaxWindows == 3

\* ------------------------------------------------------- program constants
\* timedelta(minutes=chunk_minutes), in the milliseconds of parse8601.
MsPerMinute == 60000
\* candle[0]/1000: milliseconds to the seconds of utcfromtimestamp.
MsPerSecond == 1000
\* initial_portfolio = 10000.0
InitialPortfolio == 10000
\* 525600 ** 0.5: the minutes of a year under the square root.
MinutesPerYear == 525600

symbols == <<"BTC/USDT", "ETH/USDT", "ETH/BTC">>

SymIdx == 1..Len(symbols)

\* ------------------------------------------------------------ candle source
\* Open times of the candles an exchange holds: the minute marks of the range.
CandleTimes == {m * MsPerMinute : m \in 0..(MaxMinutes - 1)}

\* Open times a source bound only by the interface may answer with: two minute
\* marks and one time that is not a whole second.
AnyTimes == {0, MsPerSecond \div 2, MsPerMinute}

\* Instants start_dt and end_dt are drawn from: the half-minute marks.
Instants == {h * (MsPerMinute \div 2) : h \in 0..(2 * MaxMinutes)}

Starts == {0, MsPerMinute \div 2}

\* The close price (candle[4]) the source reports for pair i at open time t.
ClosePrice(i, t) == (1000 * i) + ((t \div (MsPerSecond \div 2)) % 1000)

Candle(i, t) == [ts |-> t, close |-> ClosePrice(i, t)]

RECURSIVE Ascending(_)
\* The elements of a finite set of integers as an ascending sequence.
Ascending(S) ==
    IF S = {} THEN <<>>
    ELSE LET lo == CHOOSE x \in S : \A y \in S : x <= y
         IN <<lo>> \o Ascending(S \ {lo})

Prefix(s, n) == SubSeq(s, 1, IF n < Len(s) THEN n ELSE Len(s))

\* ------------------------------------------------------------------- state
VARIABLES
    \* fetch_all_historical_triangle_data_incremental: parameters
    start_dt, end_dt, limit, chunk_minutes,
    \* ... its locals
    pc,               \* position: "start", "outer", "inner", "fetch", "merge", "done", "aborted"
    f,                \* the output file: the sequence of pieces written so far
    first_record,
    current_start, current_end,
    sym,              \* index into symbols of the pair being fetched
    since,
    candles,          \* the close by timestamp key of the candles kept for this pair
    data_by_symbol,
    \* the candle source
    avail,            \* the open times at which each pair has a candle
    \* history of the run
    sinceHonoured,    \* no answer so far held a candle older than the request's since
    emitted,          \* the records written by the merge just done
    emptyFirst        \* a request of the first sub-window was answered an empty page

buildVars == <<start_dt, end_dt, limit, chunk_minutes, pc, f, first_record,
               current_start, current_end, sym, since, candles, data_by_symbol,
               avail, sinceHonoured, emitted, emptyFirst>>

VARIABLES
    \* the latest call of fetch_triangle_market_data or check_triangle_arbitrage
    tickers,          \* the exchange's answers to the three fetch_ticker calls
    record,           \* a merged record's three prices, for a call with data
    threshold,        \* check_triangle_arbitrage's threshold, a fraction
    call,             \* "none", "fetch", "check_live", "check_data"
    data,             \* check_triangle_arbitrage's data once it is set
    snapshot,         \* what fetch_triangle_market_data returned in that call
    signal            \* what check_triangle_arbitrage returned

evalVars == <<tickers, record, threshold, call, data, snapshot, signal>>

VARIABLES
    \* backtest_triangle_arbitrage_minute: the call's arguments
    historical_data,  \* the list of merged records, each the three pairs' prices
    trade_fraction,   \* None or a fraction
    initial_capital,  \* the capital the caller asks for, None when it names none
    \* ... its locals
    bt_pc,            \* position: "idle", "loop", "stats", "drawdown", "returned", "raised"
    current_portfolio,
    portfolio_history,
    trade_returns,
    stats,            \* cumulative_return, avg_return, std_return, sharpe_ratio
    result            \* what the call returned

btInputs == <<historical_data, trade_fraction, initial_capital>>

btLocals == <<current_portfolio, portfolio_history, trade_returns, stats, result>>

btVars == <<btInputs, bt_pc, btLocals>>

VARIABLES
    \* the trader's account attributes, set by __init__
    balance, holdings, active_orders,
    \* the methods of self.exchange called so far
    exchange_calls

acctVars == <<balance, holdings, active_orders>>

VARIABLES
    \* the orders open on the exchange's side
    exchange_open,
    \* config.IS_SIMULATION, the module-level flag the trader imports
    IS_SIMULATION,
    \* the latest order operation called and what it returned
    order_call

orderVars == <<exchange_open, IS_SIMULATION, order_call>>

vars == <<buildVars, evalVars, btVars, acctVars, orderVars, exchange_calls>>

\* ------------------------------------------------------------ timestamp keys
\* datetime.utcfromtimestamp(t/1000): whole seconds and microseconds.
\* isoformat() prints the microseconds only when they are not zero.
IsoKey(t) == <<t \div MsPerSecond, (t % MsPerSecond) * 1000>>

\* The order sorted() gives the key strings: "YYYY-MM-DDTHH:MM:SS" is of fixed
\* width, then "Z" follows at once or after ".ffffff", and "." sorts before "Z".
IsoLess(a, b) ==
    IF a[1] # b[1] THEN a[1] < b[1]
    ELSE IF a[2] = 0 THEN FALSE
    ELSE IF b[2] = 0 THEN TRUE
    ELSE a[2] < b[2]

RECURSIVE Sorted_Descending(_)
\* Mutant of Sorted: sorted(common_ts, reverse=True).
Sorted_Descending(K) ==
    IF K = {} THEN <<>>
    ELSE LET hi == CHOOSE x \in K : \A y \in K \ {x} : IsoLess(y, x)
         IN <<hi>> \o Sorted_Descending(K \ {hi})

RECURSIVE Sorted(_)
\* sorted(common_ts)
Sorted(K) ==
    IF K = {} THEN <<>>
    ELSE LET lo == CHOOSE x \in K : \A y \in K \ {x} : IsoLess(x, y)
         IN <<lo>> \o Sorted(K \ {lo})

\* ------------------------------------------------------------------- dicts
EmptyDict == [k \in {} |-> 0]

DictPut(d, k, v) == [x \in (DOMAIN d) \cup {k} |-> IF x = k THEN v ELSE d[x]]

RECURSIVE KeepCandles(_, _, _)
\* for candle in batch: if candle[0] >= end_timestamp: break; candles.append(candle)
\* followed by the dict comprehension over candles (a later candle of the same
\* key replaces the earlier one), kept here as the mapping the list determines.
KeepCandles(d, batch, end_timestamp) ==
    IF batch = <<>> \/ Head(batch).ts >= end_timestamp THEN d
    ELSE KeepCandles(DictPut(d, IsoKey(Head(batch).ts), Head(batch).close),
                     Tail(batch), end_timestamp)

\* --------------------------------------------------------------- the file
Piece(kind) == [kind |-> kind, timestamp |-> <<0, 0>>, prices |-> <<0, 0, 0>>]

\* Mutant of Record: every pair's price is read from the first pair's dict.
Record_FirstPairOnly(by_sym, ts) ==
    [kind |-> "rec", timestamp |-> ts,
     prices |-> [i \in SymIdx |-> by_sym[symbols[1]][ts]]]

\* record = {"timestamp": ts}; record[sym] = data_by_symbol[sym][ts]
Record(by_sym, ts) ==
    [kind |-> "rec", timestamp |-> ts,
     prices |-> [i \in SymIdx |-> by_sym[symbols[i]][ts]]]

RECURSIVE WriteRecords_AlwaysComma(_, _, _)
\* Mutant of WriteRecords: the separator is written before every record.
WriteRecords_AlwaysComma(recs, first, acc) ==
    IF recs = <<>> THEN acc
    ELSE WriteRecords_AlwaysComma(Tail(recs), FALSE,
                                  acc \o <<Piece("sep"), Head(recs)>>)

RECURSIVE WriteRecords(_, _, _)
\* The pieces written for the records `recs`, given first_record before them.
WriteRecords(recs, first, acc) ==
    IF recs = <<>> THEN acc
    ELSE WriteRecords(Tail(recs), FALSE,
                      IF first THEN acc \o <<Head(recs)>>
                      ELSE acc \o <<Piece("sep"), Head(recs)>>)

\* common_ts: the keys of the first pair's dict intersected with the others'.
CommonTs(by_sym) ==
    (DOMAIN by_sym[symbols[1]]) \cap (DOMAIN by_sym[symbols[2]]) \cap (DOMAIN by_sym[symbols[3]])

MergedRecords(by_sym) ==
    LET order == Sorted(CommonTs(by_sym))
    IN [n \in 1..Len(order) |-> Record(by_sym, order[n])]

\* ------------------------------------------------------- python values
PyNone == [tag |-> "None", v |-> 0]

Num(n) == [tag |-> "num", v |-> n]

\* bool(x) of None or a number
Truthy(x) == x.tag = "num" /\ x.v # 0

\* Exact fractions for the floats of the cycle factors and the threshold.
Frac(n, d) == [num |-> n, den |-> d]

FracEq(a, b) == a.num * b.den = b.num * a.den

\* a > b, for denominators of either sign (none is zero)
FracGT(a, b) ==
    IF a.den * b.den > 0 THEN a.num * b.den > b.num * a.den
    ELSE a.num * b.den < b.num * a.den

\* Mutant of OnePlus: the threshold is taken off 1.
OnePlus_Negated(t) == Frac(t.den - t.num, t.den)

\* 1 + threshold
OnePlus(t) == Frac(t.den + t.num, t.den)

\* --------------------------------------------------- the live snapshot
\* A ticker the exchange answers with: its "last" (None when the field is
\* missing or null), or an error raised by fetch_ticker.
Ticker(lastPrice) == [raises |-> FALSE, last |-> lastPrice]

TickerError == [raises |-> TRUE, last |-> PyNone]

\* A dict keyed by the three pairs; `live` tells whether each value is itself a
\* dict with a "last" entry (a live snapshot) or the price (a merged record).
Dict(live, vals) == [tag |-> "dict", live |-> live, vals |-> vals]

\* {"last": ticker.get("last"), "volume": ...}; the volume is read nowhere.
Quote(ticker) == [last |-> ticker.last]

NoDict == [tag |-> "None", live |-> FALSE, vals |-> <<PyNone, PyNone, PyNone>>]

\* fetch_triangle_market_data: the three fetch_ticker calls inside the try, then
\* the dict of ticker.get("last") per pair; None when a call raised.
fetch_triangle_market_data(tk) ==
    IF \E i \in SymIdx : tk[i].raises THEN NoDict
    ELSE Dict(TRUE, [i \in SymIdx |-> Quote(tk[i])])

\* ------------------------------------------------ the arbitrage evaluator
\* Mutant of get_price: a missing "last" reads as 1.
get_price_Default(d, i) ==
    IF d.live
    THEN (IF d.vals[i].last.tag = "None" THEN Num(1) ELSE d.vals[i].last)
    ELSE d.vals[i]

\* get_price(data.get(pair)): val.get("last") of a dict value, else the value.
get_price(d, i) == IF d.live THEN d.vals[i].last ELSE d.vals[i]

\* Mutant of Cycle2: the reverse factor divides by the wrong leg.
Cycle2_WrongLeg(btc_usdt, eth_usdt, eth_btc) == Frac(btc_usdt * eth_usdt, eth_btc)

\* cycle1 = eth_usdt / (btc_usdt * eth_btc)
Cycle1(btc_usdt, eth_usdt, eth_btc) == Frac(eth_usdt, btc_usdt * eth_btc)

\* cycle2 = (btc_usdt * eth_btc) / eth_usdt
Cycle2(btc_usdt, eth_usdt, eth_btc) == Frac(btc_usdt * eth_btc, eth_usdt)

\* Mutant of Opportunity: the comparison admits equality.
Opportunity_OrEqual(factor, t) == ~FracGT(OnePlus(t), factor)

\* cycle > (1 + threshold)
Opportunity(factor, t) == FracGT(factor, OnePlus(t))

NoSignal ==
    [tag |-> "None", prices |-> <<0, 0, 0>>,
     Cycle1_factor |-> Frac(0, 1), Cycle1_opportunity |-> FALSE,
     Cycle2_factor |-> Frac(0, 1), Cycle2_opportunity |-> FALSE,
     threshold |-> Frac(0, 1)]

\* The body of check_triangle_arbitrage from `if not isinstance(data, dict)` on.
Evaluate(d, t) ==
    IF d.tag # "dict" THEN NoSignal
    ELSE LET btc_usdt == get_price(d, 1)
             eth_usdt == get_price(d, 2)
             eth_btc == get_price(d, 3)
         IN IF ~(Truthy(btc_usdt) /\ Truthy(eth_usdt) /\ Truthy(eth_btc))
            THEN NoSignal
            ELSE [tag |-> "dict",
                  prices |-> <<btc_usdt.v, eth_usdt.v, eth_btc.v>>,
                  Cycle1_factor |-> Cycle1(btc_usdt.v, eth_usdt.v, eth_btc.v),
                  Cycle1_opportunity |->
                      Opportunity(Cycle1(btc_usdt.v, eth_usdt.v, eth_btc.v), t),
                  Cycle2_factor |-> Cycle2(btc_usdt.v, eth_usdt.v, eth_btc.v),
                  Cycle2_opportunity |->
                      Opportunity(Cycle2(btc_usdt.v, eth_usdt.v, eth_btc.v), t),
                  threshold |-> t]

\* The values a price or a "last" field takes: None, a non-positive number, or
\* a positive one.
PriceVals == {PyNone} \cup {Num(n) : n \in -1..MaxPrice}

\* Thresholds, in halves: from -3/2 to MaxThreshold/2.
Thresholds == {Frac(n, 2) : n \in -3..MaxThreshold}

TickerAnswers == {TickerError} \cup {Ticker(x) : x \in PriceVals}

\* Mutant of TickerCalls: reading the tickers also places a market order.
TickerCalls_AndOrder == {"fetch_ticker", "create_market_order"}

\* The methods of self.exchange a call of fetch_triangle_market_data invokes.
TickerCalls == {"fetch_ticker"}

\* The methods of self.exchange that place or cancel an order.
OrderCalls == {"create_order", "create_market_order", "cancel_order"}

evalOutside == <<buildVars, btVars, acctVars, orderVars>>

evalInputs == <<tickers, record, threshold>>

\* trader.fetch_triangle_market_data()
FetchSnapshot ==
    /\ call' = "fetch"
    /\ snapshot' = fetch_triangle_market_data(tickers)
    /\ data' = NoDict
    /\ signal' = NoSignal
    /\ exchange_calls' = exchange_calls \cup TickerCalls
    /\ UNCHANGED <<evalInputs, evalOutside>>

\* trader.check_triangle_arbitrage(threshold): data is None, so the snapshot is
\* fetched; without one the call returns None.
CheckLive ==
    /\ call' = "check_live"
    /\ snapshot' = fetch_triangle_market_data(tickers)
    /\ data' = fetch_triangle_market_data(tickers)
    /\ signal' = Evaluate(fetch_triangle_market_data(tickers), threshold)
    /\ exchange_calls' = exchange_calls \cup TickerCalls
    /\ UNCHANGED <<evalInputs, evalOutside>>

\* trader.check_triangle_arbitrage(threshold, data=record), record a dict of the
\* three pairs' prices.
CheckData ==
    /\ call' = "check_data"
    /\ snapshot' = NoDict
    /\ data' = Dict(FALSE, record)
    /\ signal' = Evaluate(Dict(FALSE, record), threshold)
    /\ UNCHANGED <<evalInputs, evalOutside, exchange_calls>>

NoCall ==
    /\ call = "none"
    /\ data = NoDict
    /\ snapshot = NoDict
    /\ signal = NoSignal

\* No snapshot is read or evaluated.
InitEval ==
    /\ tickers = [i \in SymIdx |-> TickerError]
    /\ record = [i \in SymIdx |-> PyNone]
    /\ threshold = Frac(0, 2)
    /\ NoCall

\* --------------------------------------------- arithmetic on fractions
Abs(n) == IF n < 0 THEN -n ELSE n

RECURSIVE GCD(_, _)
GCD(a, b) == IF b = 0 THEN a ELSE GCD(b, a % b)

\* The same value in lowest terms over a positive denominator: the one float
\* that stands for all the ways of writing it.
Reduce(x) ==
    LET g == GCD(Abs(x.num), Abs(x.den))
        sgn == IF x.den < 0 THEN -1 ELSE 1
    IN Frac((sgn * x.num) \div g, (sgn * x.den) \div g)

Zero == Frac(0, 1)

One == Frac(1, 1)

FracAdd(a, b) == Reduce(Frac((a.num * b.den) + (b.num * a.den), a.den * b.den))

FracSub(a, b) == Reduce(Frac((a.num * b.den) - (b.num * a.den), a.den * b.den))

FracMul(a, b) == Reduce(Frac(a.num * b.num, a.den * b.den))

\* a / b, for b other than zero
FracDiv(a, b) == Reduce(Frac(a.num * b.den, a.den * b.num))

\* max(a, b): the first argument unless the second is greater
FracMax(a, b) == IF FracGT(b, a) THEN b ELSE a

RECURSIVE FracSum(_)
\* sum(...)
FracSum(s) == IF s = <<>> THEN Zero ELSE FracAdd(Head(s), FracSum(Tail(s)))

\* x ** 0.5, kept as the value under the root
SqrtOf(x) == [radicand |-> x]

\* ------------------------------------------------------- the backtest
\* A trade_fraction argument: a fraction, or None.
FracVal(x) == [tag |-> "num", v |-> x]

NoFraction == [tag |-> "None", v |-> Zero]

\* Mutant of Flagged: every signal counts as an opportunity.
Flagged_Always(sig) == TRUE

\* if opp1 or opp2
Flagged(sig) == sig.Cycle1_opportunity \/ sig.Cycle2_opportunity

\* selected_factor = max(cycle1 if opp1 else 0, cycle2 if opp2 else 0)
selected_factor(sig) ==
    FracMax(IF sig.Cycle1_opportunity THEN sig.Cycle1_factor ELSE Zero,
            IF sig.Cycle2_opportunity THEN sig.Cycle2_factor ELSE Zero)

\* Mutant of profit_pct: the difference is taken the other way round.
profit_pct_Reversed(sig) == FracSub(One, selected_factor(sig))

\* profit_pct = selected_factor - 1.0
profit_pct(sig) == FracSub(selected_factor(sig), One)

\* trade_profit = current_portfolio * trade_fraction * profit_pct
trade_profit(value, fraction, sig) == FracMul(FracMul(value, fraction), profit_pct(sig))

\* Mutant of risked: the divisor is the value after the trade.
risked_AfterTrade(after, profit) == IF after.num # 0 THEN after ELSE One

\* risked = current_portfolio - trade_profit if that is not 0 else 1, with
\* current_portfolio already increased by trade_profit
risked(after, profit) ==
    IF FracSub(after, profit).num # 0 THEN FracSub(after, profit) ELSE One

\* trade_return = trade_profit / risked
trade_return(after, profit) == FracDiv(profit, risked(after, profit))

\* Mutant of NoSignalOutcome: the record counts as a total loss of return.
NoSignalOutcome_Loss(value) == [value |-> value, ret |-> Frac(-1, 1)]

\* arb_signal is None: trade_returns.append(0);
\* portfolio_history.append(current_portfolio); continue
NoSignalOutcome(value) == [value |-> value, ret |-> Zero]

\* else: trade_return = 0, the portfolio as it is
NoTradeOutcome(value) == [value |-> value, ret |-> Zero]

\* if opp1 or opp2: current_portfolio += trade_profit and the trade's return
TradeOutcome(value, fraction, sig) ==
    [value |-> FracAdd(value, trade_profit(value, fraction, sig)),
     ret |-> trade_return(FracAdd(value, trade_profit(value, fraction, sig)),
                          trade_profit(value, fraction, sig))]

\* Mutant of AppendValue: the last entry of the history is overwritten.
AppendValue_Overwrite(history, value) == [history EXCEPT ![Len(history)] = value]

\* portfolio_history.append(current_portfolio)
AppendValue(history, value) == Append(history, value)

\* The value and the return one record leaves, for a numeric trade fraction.
StepOutcome(value, fraction, sig) ==
    IF sig.tag = "None" THEN NoSignalOutcome(value)
    ELSE IF Flagged(sig) THEN TradeOutcome(value, fraction, sig)
    ELSE NoTradeOutcome(value)

\* avg_return = sum(trade_returns) / len(trade_returns) if trade_returns else 0
avg_return(returns) ==
    IF returns = <<>> THEN Zero
    ELSE FracDiv(FracSum(returns), Frac(Len(returns), 1))

\* sum((r - avg_return) ** 2 for r in trade_returns) / len(trade_returns)
Variance(returns) ==
    LET avg == avg_return(returns)
        sq == [n \in 1..Len(returns) |->
                  FracMul(FracSub(returns[n], avg), FracSub(returns[n], avg))]
    IN FracDiv(FracSum(sq), Frac(Len(returns), 1))

\* std_return = (...) ** 0.5 if trade_returns else 0
std_return(returns) ==
    IF returns = <<>> THEN SqrtOf(Zero) ELSE SqrtOf(Variance(returns))

\* Mutant of sharpe_ratio: a zero deviation gives a ratio of zero.
sharpe_ratio_ZeroWhenFlat(avg, std) ==
    [inf |-> FALSE, avg |-> IF std.radicand.num # 0 THEN avg ELSE Zero,
     std |-> std, annual |-> SqrtOf(Frac(MinutesPerYear, 1))]

\* sharpe_ratio = (avg_return / std_return * (525600 ** 0.5)) if std_return != 0
\* else float('inf'); the quotient of the roots is kept by its three parts.
sharpe_ratio(avg, std) ==
    IF std.radicand.num # 0
    THEN [inf |-> FALSE, avg |-> avg, std |-> std,
          annual |-> SqrtOf(Frac(MinutesPerYear, 1))]
    ELSE [inf |-> TRUE, avg |-> Zero, std |-> SqrtOf(Zero), annual |-> SqrtOf(Zero)]

\* cumulative_return = (current_portfolio / initial_portfolio) - 1
cumulative_return(value) == FracSub(FracDiv(value, Frac(InitialPortfolio, 1)), One)

\* Mutant of Peak: the peak stays at the first value.
Peak_FirstValue(peak, value) == peak

\* if value > peak: peak = value
Peak(peak, value) == IF FracGT(value, peak) THEN value ELSE peak

RECURSIVE DrawdownRaises(_, _)
\* (peak - value) / peak divides by a peak of zero at some value.
DrawdownRaises(history, peak) ==
    /\ history # <<>>
    /\ \/ Peak(peak, Head(history)).num = 0
       \/ DrawdownRaises(Tail(history), Peak(peak, Head(history)))

RECURSIVE DrawdownLoop(_, _, _)
\* for value in portfolio_history: the running peak, the drawdown from it, and
\* the largest drawdown so far.
DrawdownLoop(history, peak, largest) ==
    IF history = <<>> THEN largest
    ELSE LET value == Head(history)
             drawdown == FracDiv(FracSub(Peak(peak, value), value), Peak(peak, value))
         IN DrawdownLoop(Tail(history), Peak(peak, value),
                         IF FracGT(drawdown, largest) THEN drawdown ELSE largest)

\* peak = portfolio_history[0]; max_drawdown = 0; the loop
max_drawdown(history) == DrawdownLoop(history, history[1], Zero)

NoStats ==
    [cumulative_return |-> Zero, average_return |-> Zero,
     std_return |-> SqrtOf(Zero), sharpe_ratio |-> sharpe_ratio(Zero, SqrtOf(Zero))]

\* return None
NoResult ==
    [tag |-> "None", portfolio_history |-> <<>>, cumulative_return |-> Zero,
     average_return |-> Zero, std_return |-> SqrtOf(Zero),
     sharpe_ratio |-> sharpe_ratio(Zero, SqrtOf(Zero)), max_drawdown |-> Zero]

\* result = {"portfolio_history": ..., ..., "max_drawdown": max_drawdown}
Result(history, st) ==
    [tag |-> "dict", portfolio_history |-> history,
     cumulative_return |-> st.cumulative_return,
     average_return |-> st.average_return, std_return |-> st.std_return,
     sharpe_ratio |-> st.sharpe_ratio, max_drawdown |-> max_drawdown(history)]

\* What no step of the backtest touches.
btFrame ==
    <<buildVars, acctVars, orderVars, exchange_calls, btInputs, tickers, threshold>>

\* The record the loop is at: enumerate(historical_data) at i = len(trade_returns).
NextRecord == historical_data[Len(trade_returns) + 1]

\* The call is made: an argument the signature does not name is a TypeError at
\* the caller; empty data returns None; else the portfolio starts.
BacktestCall ==
    /\ bt_pc = "idle"
    /\ IF initial_capital.tag # "None"
       THEN /\ bt_pc' = "raised"
            /\ UNCHANGED btLocals
       ELSE IF historical_data = <<>>
       THEN /\ bt_pc' = "returned"
            /\ result' = NoResult
            /\ UNCHANGED <<current_portfolio, portfolio_history, trade_returns, stats>>
       ELSE /\ bt_pc' = "loop"
            /\ current_portfolio' = Frac(InitialPortfolio, 1)
            /\ portfolio_history' = <<Frac(InitialPortfolio, 1)>>
            /\ trade_returns' = <<>>
            /\ UNCHANGED <<stats, result>>
    /\ UNCHANGED <<btFrame, record, call, data, snapshot, signal>>

\* One record of the loop: check_triangle_arbitrage(threshold, data=record), then
\* no signal, a trade, or no trade.  A trade with a trade_fraction that is not a
\* number raises, and the except clause returns None.
BacktestStep ==
    /\ bt_pc = "loop"
    /\ record' = NextRecord
    /\ call' = "check_data"
    /\ snapshot' = NoDict
    /\ data' = Dict(FALSE, NextRecord)
    /\ signal' = Evaluate(Dict(FALSE, NextRecord), threshold)
    /\ IF signal'.tag = "dict" /\ Flagged(signal') /\ trade_fraction.tag = "None"
       THEN /\ bt_pc' = "returned"
            /\ result' = NoResult
            /\ UNCHANGED <<current_portfolio, portfolio_history, trade_returns, stats>>
       ELSE /\ current_portfolio' =
                   StepOutcome(current_portfolio, trade_fraction.v, signal').value
            /\ trade_returns' =
                   Append(trade_returns,
                          StepOutcome(current_portfolio, trade_fraction.v, signal').ret)
            /\ portfolio_history' = AppendValue(portfolio_history, current_portfolio')
            /\ bt_pc' = (IF Len(trade_returns') < Len(historical_data) THEN "loop" ELSE "stats")
            /\ UNCHANGED <<stats, result>>
    /\ UNCHANGED btFrame

\* cumulative_return, avg_return, std_return, sharpe_ratio
BacktestStats ==
    /\ bt_pc = "stats"
    /\ stats' = [cumulative_return |-> cumulative_return(current_portfolio),
                 average_return |-> avg_return(trade_returns),
                 std_return |-> std_return(trade_returns),
                 sharpe_ratio |-> sharpe_ratio(avg_return(trade_returns),
                                               std_return(trade_returns))]
    /\ bt_pc' = "drawdown"
    /\ UNCHANGED <<btFrame, record, call, data, snapshot, signal,
                   current_portfolio, portfolio_history, trade_returns, result>>

\* The drawdown loop and the result; a peak of zero raises in the division, and
\* the except clause returns None.
BacktestDrawdown ==
    /\ bt_pc = "drawdown"
    /\ result' = (IF DrawdownRaises(portfolio_history, portfolio_history[1])
                  THEN NoResult
                  ELSE Result(portfolio_history, stats))
    /\ bt_pc' = "returned"
    /\ UNCHANGED <<btFrame, record, call, data, snapshot, signal,
                   current_portfolio, portfolio_history, trade_returns, stats>>

\* No backtest is called.
InitBacktestIdle ==
    /\ historical_data = <<>>
    /\ trade_fraction = NoFraction
    /\ initial_capital = PyNone
    /\ bt_pc = "idle"
    /\ current_portfolio = Zero
    /\ portfolio_history = <<>>
    /\ trade_returns = <<>>
    /\ stats = NoStats
    /\ result = NoResult

\* ------------------------------------------------- the trader's account
\* The methods of self.exchange that __init__ calls, through get_account_balance
\* and get_open_orders.
InitCalls == {"fetch_balance", "fetchOpenOrders"}

\* self.holdings = total_balances, by currency
Holdings(usdt) == [c \in {"USDT"} |-> usdt]

\* No order operation has been called.
NoOrderCall == [op |-> "none", ret |-> "none"]

RECURSIVE ListOf(_)
\* The orders of a set as the list the exchange answers with.
ListOf(S) ==
    IF S = {} THEN <<>>
    ELSE LET o == CHOOSE x \in S : TRUE
         IN <<o>> \o ListOf(S \ {o})

\* The orders of a list, as a set.
SetOf(list) == {list[n] : n \in 1..Len(list)}

\* __init__ with an exchange whose calls raise: get_account_balance returns
\* None and sets no holdings (here the empty mapping), get_open_orders returns [].
\* IS_SIMULATION is as config.py sets it.
InitAccountEmpty ==
    /\ balance = PyNone
    /\ holdings = EmptyDict
    /\ active_orders = <<>>
    /\ exchange_calls = InitCalls
    /\ exchange_open = {}
    /\ IS_SIMULATION = TRUE
    /\ order_call = NoOrderCall

\* The USDT totals fetch_balance answers with.
UsdtTotals == {0, 100}

\* The open orders fetchOpenOrders answers with.
OpenOrders == {<<>>, <<[id |-> "o1", symbol |-> "BTC/USDT"]>>}

\* __init__: balance and holdings from fetch_balance, or None and no holdings
\* when it raised; active_orders from fetchOpenOrders.
InitAccount ==
    /\ \/ balance = PyNone /\ holdings = EmptyDict
       \/ \E usdt \in UsdtTotals : balance = Num(usdt) /\ holdings = Holdings(usdt)
    /\ active_orders \in OpenOrders
    /\ exchange_calls = InitCalls
    /\ exchange_open = SetOf(active_orders)
    /\ IS_SIMULATION = TRUE
    /\ order_call = NoOrderCall

\* ------------------------------------------------- the historical builder
Min(a, b) == IF a < b THEN a ELSE b

\* Mutant of NextSince: the cursor is set to the last open time itself.
NextSince_NoAdvance(batch) == batch[Len(batch)].ts

\* since = batch[-1][0] + 1
NextSince(batch) == batch[Len(batch)].ts + 1

\* Mutant of ShortPage: a full page ends the loop too.
ShortPage_OrFull(batch) == Len(batch) <= limit

\* if len(batch) < limit: break
ShortPage(batch) == Len(batch) < limit

buildParams == <<start_dt, end_dt, limit, chunk_minutes, avail>>

\* What no step of the builder touches.
buildFrame == <<buildParams, evalVars, btVars, acctVars, orderVars>>

\* self.exchange.parse8601 of the sub-window's bounds, per pair.
ParseCalls == {"parse8601"}

\* self.exchange.fetch_ohlcv, per request.
CandleCalls == {"fetch_ohlcv"}

\* A pair's loop is entered with since at the sub-window's start: its first test
\* `while since < end_timestamp` leads to the request, or is left to InnerTest.
LoopEntry(cursor, end_timestamp) == IF cursor < end_timestamp THEN "fetch" ELSE "inner"

\* The function has returned: its locals are gone.
Returned ==
    /\ first_record' = TRUE
    /\ current_start' = 0
    /\ current_end' = 0
    /\ sym' = 1
    /\ since' = 0
    /\ candles' = EmptyDict
    /\ data_by_symbol' = EmptyDict

\* with open(filename, 'w') as f: f.write("[\n"); first_record = True;
\* current_start = start_dt
Begin ==
    /\ pc = "start"
    /\ f' = <<Piece("open")>>
    /\ first_record' = TRUE
    /\ current_start' = start_dt
    /\ pc' = "outer"
    /\ UNCHANGED <<buildFrame, current_end, sym, since, candles, data_by_symbol,
                   sinceHonoured, emitted, emptyFirst, exchange_calls>>

\* while current_start < end_dt: the sub-window's bounds, data_by_symbol = {},
\* and the first pair's candles = [] and since; after the loop f.write("\n]").
OuterTest ==
    /\ pc = "outer"
    /\ IF current_start < end_dt
       THEN /\ current_end' = Min(current_start + (chunk_minutes * MsPerMinute), end_dt)
            /\ data_by_symbol' = EmptyDict
            /\ sym' = 1
            /\ candles' = EmptyDict
            /\ since' = current_start
            /\ pc' = LoopEntry(current_start, current_end')
            /\ exchange_calls' = exchange_calls \cup ParseCalls
            /\ UNCHANGED <<f, first_record, current_start>>
       ELSE /\ f' = Append(f, Piece("close"))
            /\ pc' = "done"
            /\ Returned
            /\ UNCHANGED exchange_calls
    /\ emitted' = <<>>
    /\ UNCHANGED <<buildFrame, sinceHonoured, emptyFirst>>

\* Mutant of EndOfPair: the pair's partial candles are dropped.
EndOfPair_DropsPartial(kept, cursor) ==
    /\ data_by_symbol' = DictPut(data_by_symbol, symbols[sym], EmptyDict)
    /\ IF sym < Len(symbols)
       THEN /\ sym' = sym + 1
            /\ candles' = EmptyDict
            /\ since' = current_start
            /\ pc' = LoopEntry(current_start, current_end)
       ELSE /\ candles' = kept
            /\ since' = cursor
            /\ UNCHANGED sym
            /\ pc' = "merge"

\* The end of one pair's retrieval loop: data_by_symbol[sym] = rec_dict, then the
\* next pair's candles = [] and since, or the merge after the last pair.
EndOfPair(kept, cursor) ==
    /\ data_by_symbol' = DictPut(data_by_symbol, symbols[sym], kept)
    /\ IF sym < Len(symbols)
       THEN /\ sym' = sym + 1
            /\ candles' = EmptyDict
            /\ since' = current_start
            /\ pc' = LoopEntry(current_start, current_end)
       ELSE /\ candles' = kept
            /\ since' = cursor
            /\ UNCHANGED sym
            /\ pc' = "merge"

\* while since < end_timestamp, after a full page
InnerTest ==
    /\ pc = "inner"
    /\ IF since < current_end
       THEN /\ pc' = "fetch"
            /\ UNCHANGED <<sym, since, candles, data_by_symbol>>
       ELSE EndOfPair(candles, since)
    /\ UNCHANGED <<buildFrame, f, first_record, current_start, current_end,
                   sinceHonoured, emitted, emptyFirst, exchange_calls>>

\* The loop body once fetch_ohlcv has answered `batch`.
TakeBatch(batch) ==
    /\ pc = "fetch"
    /\ IF batch = <<>>
       THEN /\ emptyFirst' = (emptyFirst \/ current_start = start_dt)
            /\ EndOfPair(candles, since)
            /\ UNCHANGED sinceHonoured
       ELSE /\ sinceHonoured' = (sinceHonoured /\ \A n \in 1..Len(batch) : batch[n].ts >= since)
            /\ IF ShortPage(batch)
               THEN EndOfPair(KeepCandles(candles, batch, current_end), NextSince(batch))
               ELSE /\ candles' = KeepCandles(candles, batch, current_end)
                    /\ since' = NextSince(batch)
                    /\ pc' = "inner"
                    /\ UNCHANGED <<sym, data_by_symbol>>
            /\ UNCHANGED emptyFirst
    /\ exchange_calls' = exchange_calls \cup CandleCalls
    /\ UNCHANGED <<buildFrame, f, first_record, current_start, current_end, emitted>>

\* The answer of a source that holds the candles `avail` and honours since and
\* limit: the first min(limit, available) candles of the pair from since on.
HonestPage(i, from, lim) ==
    LET later == Ascending({t \in avail[i] : t >= from})
        page == Prefix(later, lim)
    IN [n \in 1..Len(page) |-> Candle(i, page[n])]

\* The open times of a page, ascending.
PageTimes == {Ascending(S) : S \in SUBSET AnyTimes}

\* Any answer within the interface: at most lim candles, ascending by open time.
AnyPages(i, lim) ==
    {[n \in 1..Len(ts) |-> Candle(i, ts[n])] : ts \in {x \in PageTimes : Len(x) <= lim}}

FetchHonest == TakeBatch(HonestPage(sym, since, limit))

FetchAny == \E batch \in AnyPages(sym, limit) : TakeBatch(batch)

\* fetch_ohlcv raises: the exception leaves the with block (the file is closed as
\* it is) and is logged by the function's except clause.
FetchRaise ==
    /\ pc = "fetch"
    /\ pc' = "aborted"
    /\ Returned
    /\ exchange_calls' = exchange_calls \cup CandleCalls
    /\ UNCHANGED <<buildFrame, f, sinceHonoured, emitted, emptyFirst>>

\* The merge of one sub-window and current_start = current_end.
MergeEmit ==
    /\ pc = "merge"
    /\ f' = WriteRecords(MergedRecords(data_by_symbol), first_record, f)
    /\ first_record' = (first_record /\ MergedRecords(data_by_symbol) = <<>>)
    /\ emitted' = MergedRecords(data_by_symbol)
    /\ current_start' = current_end
    /\ pc' = "outer"
    /\ UNCHANGED <<buildFrame, current_end, sym, since, candles, data_by_symbol,
                   sinceHonoured, emptyFirst, exchange_calls>>

InitLocals ==
    /\ pc = "start"
    /\ f = <<>>
    /\ first_record = TRUE
    /\ current_start = 0
    /\ current_end = 0
    /\ sym = 1
    /\ since = 0
    /\ candles = EmptyDict
    /\ data_by_symbol = EmptyDict
    /\ sinceHonoured = TRUE
    /\ emitted = <<>>
    /\ emptyFirst = FALSE

InitParams ==
    /\ start_dt \in Starts
    /\ end_dt \in {e \in Instants : start_dt < e}
    /\ limit \in 1..MaxLimit
    /\ chunk_minutes \in 1..MaxChunk

\* A source that holds some candles per pair and answers honestly.
InitBuild ==
    /\ InitParams
    /\ avail \in [SymIdx -> SUBSET CandleTimes]
    /\ InitLocals
    /\ InitEval
    /\ InitBacktestIdle
    /\ InitAccountEmpty

\* A source bound only by the interface (and free to raise).
InitAny ==
    /\ InitParams
    /\ start_dt = 0
    /\ avail = [i \in SymIdx |-> {}]
    /\ InitLocals
    /\ InitEval
    /\ InitBacktestIdle
    /\ InitAccountEmpty

NextBuild == Begin \/ OuterTest \/ InnerTest \/ FetchHonest \/ MergeEmit

NextAny == Begin \/ OuterTest \/ InnerTest \/ FetchAny \/ FetchRaise \/ MergeEmit

SpecBuild == InitBuild /\ [][NextBuild]_vars

SpecAny == InitAny /\ [][NextAny]_vars

\* ------------------------------------------------ claims on the builder
\* The records of a file, in the order written.
Recs(file) == SelectSeq(file, LAMBDA p : p.kind = "rec")

\* The instant a timestamp key names, in microseconds.
KeyMicros(k) == (k[1] * 1000000) + k[2]

StrictlyAscending(recs) ==
    \A m, n \in 1..Len(recs) :
        m < n => KeyMicros(recs[m].timestamp) < KeyMicros(recs[n].timestamp)

AllSymbols == {symbols[i] : i \in SymIdx}

Collected(i) == data_by_symbol[symbols[i]]

\* A merge has just been done and its inputs are still in data_by_symbol.
JustMerged == pc = "outer" /\ DOMAIN data_by_symbol = AllSymbols

\* C1: the records a sub-window emits are exactly the timestamps collected for
\* all three pairs, each once, each with every pair's close at that timestamp,
\* and they are the records the sub-window added to the file.
C1_MergeIsIntersection ==
    JustMerged =>
        /\ {emitted[n].timestamp : n \in 1..Len(emitted)}
             = {k \in (DOMAIN Collected(1)) \cup (DOMAIN Collected(2)) \cup (DOMAIN Collected(3)) :
                    \A i \in SymIdx : k \in DOMAIN Collected(i)}
        /\ \A m, n \in 1..Len(emitted) :
               m # n => emitted[m].timestamp # emitted[n].timestamp
        /\ \A n \in 1..Len(emitted) : \A i \in SymIdx :
               emitted[n].prices[i] = Collected(i)[emitted[n].timestamp]
        /\ Len(Recs(f)) >= Len(emitted)
        /\ SubSeq(Recs(f), Len(Recs(f)) - Len(emitted) + 1, Len(Recs(f))) = emitted

\* C1 witness: a merge with a timestamp held by one pair only, one held by two
\* pairs only, and one held by all three, which is emitted.
C1_Witness ==
    /\ JustMerged
    /\ Len(emitted) = 1
    /\ \E k \in DOMAIN Collected(1) :
           k \notin DOMAIN Collected(2) /\ k \notin DOMAIN Collected(3)
    /\ \E k \in DOMAIN Collected(2) :
           k \in DOMAIN Collected(3) /\ k \notin DOMAIN Collected(1)

\* C2 as claimed: whatever pages the source answers, the records written are
\* strictly ascending in time.
C2_AscendingForAnySource == StrictlyAscending(Recs(f))

WholeSeconds(recs) == \A n \in 1..Len(recs) : recs[n].timestamp[2] = 0

\* C2: when no page holds a candle older than the requested since and the
\* emitted timestamps are whole seconds, the records written are strictly
\* ascending in time.
C2_AscendingWhenSinceHonoured ==
    (sinceHonoured /\ WholeSeconds(Recs(f))) => StrictlyAscending(Recs(f))

\* C2 witness: a finished build whose source honoured since, with records of two
\* sub-windows.
C2_Witness ==
    /\ pc = "done"
    /\ sinceHonoured
    /\ chunk_minutes = 1
    /\ Len(Recs(f)) >= 2
    /\ WholeSeconds(Recs(f))

\* The open times in [start_dt, end_dt) at which all three pairs have a candle.
Expected ==
    {t \in CandleTimes : start_dt <= t /\ t < end_dt /\ \A i \in SymIdx : t \in avail[i]}

\* C3: with an honest source, a finished build has written a record for every
\* open time in [start_dt, end_dt) that all three pairs have, and no other.
C3_CoversRange ==
    pc = "done" =>
        {Recs(f)[n].timestamp : n \in 1..Len(Recs(f))} = {IsoKey(t) : t \in Expected}

\* C3 witness: one sub-window, shorter than the chunk, in which every pair has
\* more candles than one page holds, all of them emitted.
C3_Witness ==
    /\ pc = "done"
    /\ limit = 1
    /\ chunk_minutes = 2
    /\ end_dt - start_dt < chunk_minutes * MsPerMinute
    /\ Cardinality(Expected) = 2
    /\ Len(Recs(f)) = 2

\* C4 as claimed: an error of the source never ends the build; the function
\* never returns with the sub-windows unfinished.
C4_ErrorDoesNotAbort == pc # "aborted"

\* C5: an empty page ends the requests of that pair in that sub-window only:
\* the candles collected so far become the pair's entry, the build goes on with
\* the next pair or the merge of the same sub-window, nothing is written, and
\* the build ends only by an error of the source or with the range used up.
C5_EmptyPageEndsPairOnly ==
    /\ [][TakeBatch(<<>>) =>
            /\ data_by_symbol' = DictPut(data_by_symbol, symbols[sym], candles)
            /\ pc' = (IF sym < Len(symbols) THEN "fetch" ELSE "merge")
            /\ (sym < Len(symbols) => sym' = sym + 1 /\ since' = current_start)
            /\ current_start' = current_start
            /\ current_end' = current_end
            /\ f' = f]_vars
    /\ [][(pc # "aborted" /\ pc' = "aborted") => FetchRaise]_vars
    /\ [][(pc # "done" /\ pc' = "done") => current_start >= end_dt]_vars

\* C5 witness: a finished build in whose first sub-window a pair answered an
\* empty page after a full one, with a record of that sub-window and a record of
\* a later one.
C5_Witness ==
    /\ pc = "done"
    /\ limit = 1
    /\ chunk_minutes = 1
    /\ emptyFirst
    /\ \E m, n \in 1..Len(Recs(f)) :
           /\ KeyMicros(Recs(f)[m].timestamp) < (start_dt + MsPerMinute) * 1000
           /\ KeyMicros(Recs(f)[n].timestamp) >= (start_dt + MsPerMinute) * 1000

\* A program that only reads and evaluates snapshots: the exchange's tickers, or
\* the record handed to the evaluator, are any of the values they can take.
InitEvalOnly ==
    /\ start_dt = 0
    /\ end_dt = MsPerMinute
    /\ limit = 1
    /\ chunk_minutes = 1
    /\ avail = [i \in SymIdx |-> {}]
    /\ InitLocals
    /\ threshold \in Thresholds
    /\ \/ /\ tickers \in [SymIdx -> TickerAnswers]
          /\ record = [i \in SymIdx |-> PyNone]
       \/ /\ tickers = [i \in SymIdx |-> TickerError]
          /\ record \in [SymIdx -> PriceVals]
    /\ NoCall
    /\ InitBacktestIdle
    /\ InitAccountEmpty

NextEval == FetchSnapshot \/ CheckLive \/ CheckData

SpecEval == InitEvalOnly /\ [][NextEval]_vars

\* --------------------------------------------- claims on the evaluator
\* The price of pair i in the data the call evaluated.
Price(i) == IF data.live THEN data.vals[i].last ELSE data.vals[i]

AllPositive == \A i \in SymIdx : Price(i).tag = "num" /\ Price(i).v > 0

Checked == call \in {"check_live", "check_data"}

\* C6: on three positive prices the call returns a signal whose Cycle1_factor is
\* ETH/USDT over BTC/USDT times ETH/BTC, and each opportunity flag is true
\* exactly when its factor is strictly above 1 + threshold.
C6_FactorsAndFlags ==
    (Checked /\ AllPositive) =>
        /\ signal.tag = "dict"
        /\ FracEq(signal.Cycle1_factor, Frac(Price(2).v, Price(1).v * Price(3).v))
        /\ signal.Cycle1_opportunity
             <=> (Price(2).v * threshold.den
                    > Price(1).v * Price(3).v * (threshold.den + threshold.num))
        /\ signal.Cycle2_opportunity
             <=> (Price(1).v * Price(3).v * threshold.den
                    > Price(2).v * (threshold.den + threshold.num))

\* C6 witness: a signal whose first factor equals 1 + threshold exactly, with a
\* positive threshold, and is not flagged.
C6_Witness ==
    /\ Checked
    /\ AllPositive
    /\ threshold.num > 0
    /\ FracEq(signal.Cycle1_factor, OnePlus(threshold))
    /\ ~signal.Cycle1_opportunity

\* C7: on three positive prices the two factors multiply to exactly 1.
C7_Reciprocal ==
    (Checked /\ AllPositive) =>
        /\ signal.tag = "dict"
        /\ signal.Cycle1_factor.num * signal.Cycle2_factor.num
             = signal.Cycle1_factor.den * signal.Cycle2_factor.den

\* C7 witness: a signal whose factors differ from 1.
C7_Witness ==
    /\ Checked
    /\ AllPositive
    /\ signal.tag = "dict"
    /\ signal.Cycle1_factor.num > signal.Cycle1_factor.den

\* C8 as claimed: a signal is returned only when all three prices are strictly
\* positive numbers.
C8_SignalOnlyIfPositive == (Checked /\ signal.tag = "dict") => AllPositive

\* C9 as claimed: every snapshot fetch_triangle_market_data returns has a last
\* price for all three pairs.
C9_NoPartialSnapshot ==
    (call \in {"fetch", "check_live"} /\ snapshot.tag = "dict") =>
        \A i \in SymIdx : snapshot.vals[i].last.tag # "None"

SnapshotFailed ==
    \E i \in SymIdx : tickers[i].raises \/ tickers[i].last.tag = "None"

\* C10: a live check whose ticker calls raised, or whose tickers lack a last
\* price, returns no signal.
C10_NoSignalOnFailedRead ==
    (call = "check_live" /\ SnapshotFailed) => signal.tag = "None"

\* C10 witness: a live check whose three ticker calls all answered, one of them
\* without a last price, and which returned no signal.
C10_Witness ==
    /\ call = "check_live"
    /\ \A i \in SymIdx : ~tickers[i].raises
    /\ \E i \in SymIdx : tickers[i].last.tag = "None"
    /\ \E i \in SymIdx : tickers[i].last.tag = "num" /\ tickers[i].last.v > 0
    /\ signal.tag = "None"

\* ------------------------------------------------ the backtest, replayed
\* The records replayed: factors exactly 1; cycle1 above 1; cycle2 above 1; a
\* missing price; a zero price; a negative price.
BacktestRecords ==
    {<<Num(1), Num(1), Num(1)>>, <<Num(2), Num(3), Num(1)>>, <<Num(1), Num(1), Num(2)>>,
     <<Num(1), PyNone, Num(1)>>, <<Num(0), Num(1), Num(1)>>, <<Num(-1), Num(1), Num(3)>>}

BacktestThresholds == {Frac(-3, 2), Frac(0, 2), Frac(1, 2)}

TradeFractions == {NoFraction, FracVal(Frac(1, 10)), FracVal(Frac(1, 2)), FracVal(One)}

SeqsUpTo(S, n) == UNION {[1..k -> S] : k \in 0..n}

\* A program that only runs one backtest: over any records, thresholds and trade
\* fractions of the sets above, or with an initial capital named by the caller.
InitBacktest ==
    /\ start_dt = 0
    /\ end_dt = MsPerMinute
    /\ limit = 1
    /\ chunk_minutes = 1
    /\ avail = [i \in SymIdx |-> {}]
    /\ InitLocals
    /\ tickers = [i \in SymIdx |-> TickerError]
    /\ record = [i \in SymIdx |-> PyNone]
    /\ threshold \in BacktestThresholds
    /\ NoCall
    /\ InitAccountEmpty
    /\ \/ /\ initial_capital = PyNone
          /\ historical_data \in SeqsUpTo(BacktestRecords, MaxRecords)
          /\ trade_fraction \in TradeFractions
       \/ /\ initial_capital = Num(InitialPortfolio \div 2)
          /\ historical_data \in SeqsUpTo(BacktestRecords, 1)
          /\ trade_fraction = FracVal(Frac(1, 10))
    /\ bt_pc = "idle"
    /\ current_portfolio = Zero
    /\ portfolio_history = <<>>
    /\ trade_returns = <<>>
    /\ stats = NoStats
    /\ result = NoResult

NextBacktest == BacktestCall \/ BacktestStep \/ BacktestStats \/ BacktestDrawdown

SpecBacktest == InitBacktest /\ [][NextBacktest]_vars

\* The values of a portfolio history handed to the drawdown loop alone.
DrawdownValues == {Frac(90, 1), Frac(100, 1), Frac(110, 1), Frac(120, 1)}

\* The drawdown loop on its own: any history of positive values.
InitDrawdown ==
    /\ start_dt = 0
    /\ end_dt = MsPerMinute
    /\ limit = 1
    /\ chunk_minutes = 1
    /\ avail = [i \in SymIdx |-> {}]
    /\ InitLocals
    /\ InitEval
    /\ InitAccountEmpty
    /\ historical_data = <<>>
    /\ trade_fraction = NoFraction
    /\ initial_capital = PyNone
    /\ bt_pc = "drawdown"
    /\ portfolio_history \in SeqsUpTo(DrawdownValues, MaxHistory) \ {<<>>}
    /\ current_portfolio = portfolio_history[Len(portfolio_history)]
    /\ trade_returns = <<>>
    /\ stats = NoStats
    /\ result = NoResult

NextDrawdown == BacktestDrawdown

SpecDrawdown == InitDrawdown /\ [][NextDrawdown]_vars

\* ------------------------------------- the detection pipeline as a whole
\* No call of the pipeline is under way.
DetectIdle ==
    /\ pc \in {"start", "done", "aborted"}
    /\ bt_pc \in {"idle", "returned", "raised"}

\* A trader whose caller reads and evaluates live snapshots, builds one minute of
\* history from a source holding that minute's candle of each pair, and runs one
\* backtest, one call after the other in any order.
InitDetect ==
    /\ start_dt = 0
    /\ end_dt = MsPerMinute
    /\ limit = 1
    /\ chunk_minutes = 1
    /\ avail = [i \in SymIdx |-> {0}]
    /\ InitLocals
    /\ tickers = <<Ticker(Num(2)), Ticker(Num(3)), Ticker(Num(1))>>
    /\ record = <<Num(2), Num(3), Num(1)>>
    /\ threshold \in {Frac(0, 2), Frac(1, 2)}
    /\ NoCall
    /\ historical_data = << <<Num(2), Num(3), Num(1)>>, <<Num(1), Num(1), Num(1)>> >>
    /\ trade_fraction = FracVal(Frac(1, 10))
    /\ initial_capital = PyNone
    /\ bt_pc = "idle"
    /\ current_portfolio = Zero
    /\ portfolio_history = <<>>
    /\ trade_returns = <<>>
    /\ stats = NoStats
    /\ result = NoResult
    /\ InitAccount

NextDetect ==
    \/ DetectIdle /\ FetchSnapshot
    \/ DetectIdle /\ CheckLive
    \/ DetectIdle /\ CheckData
    \/ DetectIdle /\ Begin
    \/ OuterTest
    \/ InnerTest
    \/ FetchHonest
    \/ FetchRaise
    \/ MergeEmit
    \/ DetectIdle /\ BacktestCall
    \/ BacktestStep
    \/ BacktestStats
    \/ BacktestDrawdown

SpecDetect == InitDetect /\ [][NextDetect]_vars

\* C20: no call of fetch_triangle_market_data, check_triangle_arbitrage,
\* fetch_all_historical_triangle_data_incremental or
\* backtest_triangle_arbitrage_minute invokes a method of the exchange that
\* places or cancels an order, and no step of them changes the trader's balance,
\* holdings or active_orders.
C20_DetectionPlacesNoOrder ==
    /\ [](exchange_calls \cap OrderCalls = {})
    /\ [][/\ balance' = balance
          /\ holdings' = holdings
          /\ active_orders' = active_orders]_vars

\* C20 witness: the latest live check flagged an opportunity, the build wrote a
\* record, the backtest returned a result with a simulated gain, the exchange
\* was asked for tickers and candles, and the account holds an open order.
C20_Witness ==
    /\ call = "check_live"
    /\ signal.tag = "dict"
    /\ signal.Cycle1_opportunity
    /\ pc = "done"
    /\ Len(Recs(f)) = 1
    /\ bt_pc = "returned"
    /\ result.tag = "dict"
    /\ FracGT(result.cumulative_return, Zero)
    /\ {"fetch_ticker", "fetch_ohlcv", "parse8601"} \subseteq exchange_calls
    /\ balance = Num(100)
    /\ active_orders # <<>>

\* ---------------------------------------------- claims on the backtest
\* The signal of the n-th record under the run's threshold.
SignalOf(n) == Evaluate(Dict(FALSE, historical_data[n]), threshold)

\* The records processed so far.
Processed == 1..Len(trade_returns)

\* The n-th record lacks a price or has a zero price.
BadRecord(n) ==
    \E i \in SymIdx : historical_data[n][i].tag = "None" \/ historical_data[n][i].v = 0

TradedAt(n) == SignalOf(n).tag = "dict" /\ Flagged(SignalOf(n))

\* The run returned a result.
ReturnedResult == bt_pc = "returned" /\ result.tag = "dict"

\* The trade fraction is a number in (0, 1].
FractionInRange ==
    /\ trade_fraction.tag = "num"
    /\ FracGT(trade_fraction.v, Zero)
    /\ ~FracGT(trade_fraction.v, One)

\* C11 as claimed: what the call returns for an empty record sequence differs
\* from what it returns when a run over records fails.
C11_EmptyInputDistinguishable ==
    (bt_pc = "returned" /\ initial_capital.tag = "None" /\ historical_data = <<>>)
        => result # NoResult

\* C12: with a numeric trade fraction, a record without a price or with a zero
\* price appends return 0 and the unchanged portfolio value, every record
\* is processed, and the run over non-empty data returns a result.
C12_BadRecordAbsorbed ==
    (trade_fraction.tag = "num" /\ initial_capital.tag = "None") =>
        /\ \A n \in Processed :
               BadRecord(n) =>
                   /\ trade_returns[n] = Zero
                   /\ portfolio_history[n + 1] = portfolio_history[n]
        /\ bt_pc \in {"loop", "stats", "drawdown"} =>
               Len(portfolio_history) = Len(trade_returns) + 1
        /\ (bt_pc = "returned" /\ historical_data # <<>>) =>
               /\ result.tag = "dict"
               /\ Len(trade_returns) = Len(historical_data)
               /\ result.portfolio_history = portfolio_history

\* C12 witness: a run of three records that returned a result, with a trade at
\* the first, a record without a price second, and a trade at the third.
C12_Witness ==
    /\ ReturnedResult
    /\ Len(historical_data) = 3
    /\ BadRecord(2) /\ ~BadRecord(1) /\ ~BadRecord(3)
    /\ historical_data[2][2].tag = "None"
    /\ FracGT(portfolio_history[2], portfolio_history[1])
    /\ FracGT(portfolio_history[4], portfolio_history[3])

\* The larger of the flagged factors of a signal with a flag.
LargestFlagged(sig) ==
    IF sig.Cycle1_opportunity /\ sig.Cycle2_opportunity
    THEN (IF FracGT(sig.Cycle2_factor, sig.Cycle1_factor)
          THEN sig.Cycle2_factor ELSE sig.Cycle1_factor)
    ELSE IF sig.Cycle1_opportunity THEN sig.Cycle1_factor ELSE sig.Cycle2_factor

\* C13 as claimed: at every step with a flag, the value after the step is the
\* value before times 1 + trade_fraction * (the larger flagged factor - 1).
C13_SelectedIsLargestFlagged ==
    trade_fraction.tag = "num" =>
        \A n \in Processed :
            TradedAt(n) =>
                FracEq(portfolio_history[n + 1],
                       FracMul(portfolio_history[n],
                               FracAdd(One, FracMul(trade_fraction.v,
                                                    FracSub(LargestFlagged(SignalOf(n)), One)))))

\* C14: at every trade the recorded return times the value before the trade is
\* the profit of the trade, and is trade_fraction * (selected_factor - 1); with
\* a value of zero before the trade the return is the profit itself, and the
\* step completes.
C14_ReturnOverPriorValue ==
    trade_fraction.tag = "num" =>
        \A n \in Processed :
            TradedAt(n) =>
                IF portfolio_history[n].num # 0
                THEN /\ FracEq(FracMul(trade_returns[n], portfolio_history[n]),
                               FracSub(portfolio_history[n + 1], portfolio_history[n]))
                     /\ FracEq(trade_returns[n],
                               FracMul(trade_fraction.v,
                                       FracSub(selected_factor(SignalOf(n)), One)))
                ELSE FracEq(trade_returns[n],
                            FracSub(portfolio_history[n + 1], portfolio_history[n]))

\* C14 witness: a run that returned a result with a trade from a positive value
\* and a later trade from a value of zero.
C14_Witness ==
    /\ ReturnedResult
    /\ \E m, n \in Processed :
           /\ m < n
           /\ TradedAt(m) /\ TradedAt(n)
           /\ portfolio_history[m].num > 0
           /\ portfolio_history[n].num = 0
           /\ trade_returns[m].num # 0

\* Both factors of the n-th record are exactly 1.
FactorsAreOne(n) ==
    /\ SignalOf(n).tag = "dict"
    /\ FracEq(SignalOf(n).Cycle1_factor, One)
    /\ FracEq(SignalOf(n).Cycle2_factor, One)

\* C15: a step without a flag appends return 0 and leaves the value unchanged;
\* and a run with threshold >= 0 whose records all have factors exactly 1
\* returns cumulative_return 0 and max_drawdown 0, with every trade return 0
\* and every history entry the initial 10000.
C15_NoOpportunityNoChange ==
    /\ \A n \in Processed :
           (SignalOf(n).tag = "dict" /\ ~Flagged(SignalOf(n))) =>
               /\ trade_returns[n] = Zero
               /\ portfolio_history[n + 1] = portfolio_history[n]
    /\ (/\ bt_pc = "returned"
        /\ initial_capital.tag = "None"
        /\ historical_data # <<>>
        /\ threshold.num >= 0
        /\ \A n \in 1..Len(historical_data) : FactorsAreOne(n)) =>
           /\ result.tag = "dict"
           /\ result.cumulative_return = Zero
           /\ result.max_drawdown = Zero
           /\ \A n \in 1..Len(trade_returns) : trade_returns[n] = Zero
           /\ Len(result.portfolio_history) = Len(historical_data) + 1
           /\ \A n \in 1..Len(result.portfolio_history) :
                  result.portfolio_history[n] = Frac(InitialPortfolio, 1)

\* C15 witness: a returned run of as many records as the bound allows, all with
\* factors exactly 1, under a threshold of zero and a numeric trade fraction.
C15_Witness ==
    /\ ReturnedResult
    /\ Len(historical_data) = MaxRecords
    /\ threshold.num = 0
    /\ trade_fraction.tag = "num"
    /\ \A n \in 1..Len(historical_data) : FactorsAreOne(n)

LaterPairs(h) == {p \in (1..Len(h)) \X (1..Len(h)) : p[1] <= p[2]}

\* C17: for a history of positive values the max_drawdown returned is the
\* largest (h[i] - h[j]) / h[i] over i <= j, and lies in [0, 1].
C17_LargestDecline ==
    (bt_pc = "returned" /\ portfolio_history # <<>>
        /\ \A n \in 1..Len(portfolio_history) : portfolio_history[n].num > 0) =>
        /\ result.tag = "dict"
        /\ \E p \in LaterPairs(portfolio_history) :
               FracEq(result.max_drawdown,
                      FracDiv(FracSub(portfolio_history[p[1]], portfolio_history[p[2]]),
                              portfolio_history[p[1]]))
        /\ \A p \in LaterPairs(portfolio_history) :
               ~FracGT(FracDiv(FracSub(portfolio_history[p[1]], portfolio_history[p[2]]),
                               portfolio_history[p[1]]),
                       result.max_drawdown)
        /\ ~FracGT(Zero, result.max_drawdown)
        /\ ~FracGT(result.max_drawdown, One)

\* C17 witness: the history 100, 120, 90, 110 with max_drawdown 1/4.
C17_Witness ==
    /\ bt_pc = "returned"
    /\ portfolio_history = <<Frac(100, 1), Frac(120, 1), Frac(90, 1), Frac(110, 1)>>
    /\ result.tag = "dict"
    /\ result.max_drawdown = Frac(1, 4)

\* C18 as claimed: a call that names an initial capital returns a result whose
\* history starts at that capital.
C18_InitialCapitalIsParameter ==
    (bt_pc \in {"returned", "raised"} /\ initial_capital.tag = "num"
        /\ historical_data # <<>>) =>
        /\ result.tag = "dict"
        /\ result.portfolio_history[1] = Frac(initial_capital.v, 1)

AllReturnsEqual == \A m, n \in 1..Len(trade_returns) : FracEq(trade_returns[m], trade_returns[n])

IsPrefix(s, t) == Len(s) <= Len(t) /\ SubSeq(t, 1, Len(s)) = s

\* The run is in or past its loop with its locals in place.
InRun == bt_pc \in {"loop", "stats", "drawdown"} \/ (bt_pc = "returned" /\ historical_data # <<>>)

\* C21: after k records trade_returns has k entries and portfolio_history k + 1,
\* the first the initial 10000 and the last the current value; the k-th record
\* processed is the k-th of the input; and every step leaves the entries already
\* there as they are, adding at most one to each sequence and both together.
C21_AppendOnlyOncePerRecord ==
    /\ [](InRun =>
            /\ Len(trade_returns) <= Len(historical_data)
            /\ Len(portfolio_history) = Len(trade_returns) + 1
            /\ portfolio_history[1] = Frac(InitialPortfolio, 1)
            /\ portfolio_history[Len(portfolio_history)] = current_portfolio
            /\ (bt_pc = "loop" /\ trade_returns # <<>>) =>
                   record = historical_data[Len(trade_returns)])
    /\ [][/\ IsPrefix(trade_returns, trade_returns')
          /\ IsPrefix(portfolio_history, portfolio_history')
          /\ Len(trade_returns') <= Len(trade_returns) + 1
          /\ Len(portfolio_history') <= Len(portfolio_history) + 1
          /\ (bt_pc = "loop" /\ bt_pc' # "returned") =>
                 /\ Len(trade_returns') = Len(trade_returns) + 1
                 /\ Len(portfolio_history') = Len(portfolio_history) + 1]_vars

\* C21 witness: a returned run of three records with a trade, a record without a
\* flag and a record whose evaluation failed.
C21_Witness ==
    /\ ReturnedResult
    /\ Len(historical_data) = 3
    /\ Len(trade_returns) = 3
    /\ \E n \in 1..3 : TradedAt(n)
    /\ \E n \in 1..3 : SignalOf(n).tag = "dict" /\ ~Flagged(SignalOf(n))
    /\ \E n \in 1..3 : SignalOf(n).tag = "None"

\* C27: on three positive prices and a threshold that is not negative, the two
\* opportunity flags of the returned signal are never both true.
C27_FlagsExclusive ==
    (Checked /\ AllPositive /\ threshold.num >= 0) =>
        /\ signal.tag = "dict"
        /\ ~(signal.Cycle1_opportunity /\ signal.Cycle2_opportunity)

\* C27 witness: positive prices and a positive threshold with the second cycle
\* flagged and the first not.
C27_Witness ==
    /\ Checked
    /\ AllPositive
    /\ threshold.num > 0
    /\ signal.Cycle2_opportunity
    /\ ~signal.Cycle1_opportunity

\* A file that reads back as a JSON array: the opening bracket, records with one
\* separator between consecutive records and none elsewhere, the closing bracket.
WellFormedArray(file) ==
    /\ Len(file) >= 2
    /\ file[1].kind = "open"
    /\ file[Len(file)].kind = "close"
    /\ Len(file) % 2 = (IF Len(file) = 2 THEN 0 ELSE 1)
    /\ \A n \in 2..(Len(file) - 1) :
          file[n].kind = (IF n % 2 = 0 THEN "rec" ELSE "sep")

\* C22 as claimed: when the build stops on an error of the candle source, the
\* file holds the records of the sub-windows merged before and is a well-formed,
\* closed array.
C22_AbortLeavesClosedArray == (pc = "aborted") => WellFormedArray(f)

\* ------------------------------------------- the layout of the written file
\* Builds of one to MaxWindows whole-minute sub-windows (or half as many of two
\* minutes) from an honest source holding any candles at the minute marks.
WindowTimes == {m * MsPerMinute : m \in 0..(MaxWindows - 1)}

InitWrite ==
    /\ start_dt = 0
    /\ end_dt \in {n * MsPerMinute : n \in 1..MaxWindows}
    /\ limit = 1
    /\ chunk_minutes \in {1, 2}
    /\ avail \in [SymIdx -> SUBSET WindowTimes]
    /\ InitLocals
    /\ InitEval
    /\ InitBacktestIdle
    /\ InitAccountEmpty

SpecWrite == InitWrite /\ [][NextBuild]_vars

\* C24: a finished build's file is the opening bracket, the records with exactly
\* one separator between consecutive records (none before the first, none after
\* the last) and the closing bracket, whatever sub-windows had no record; and
\* every merge adds its records, in their order, after those already written.
C24_OneCommaBetweenRecords ==
    /\ [](pc = "done" => WellFormedArray(f))
    /\ [][pc = "merge" => Recs(f') = Recs(f) \o MergedRecords(data_by_symbol)]_vars

\* C24 witness: a finished build of three sub-windows with a record in the first
\* and in the third and none in the second.
C24_Witness ==
    /\ pc = "done"
    /\ chunk_minutes = 1
    /\ end_dt = 3 * MsPerMinute
    /\ Len(Recs(f)) = 2
    /\ Recs(f)[1].timestamp = IsoKey(0)
    /\ Recs(f)[2].timestamp = IsoKey(2 * MsPerMinute)

\* ------------------------------------------------ the builder's termination
\* A source that always answers, with any page within the interface whose last
\* candle, when there is one, is not older than the requested since.
FetchProgress ==
    \E batch \in AnyPages(sym, limit) :
        /\ batch # <<>> => batch[Len(batch)].ts >= since
        /\ TakeBatch(batch)

\* The ends of the ranges built: half a minute, one minute, two minutes.
TermEnds == {MsPerMinute \div 2, MsPerMinute, 2 * MsPerMinute}

InitTerm ==
    /\ start_dt = 0
    /\ end_dt \in TermEnds
    /\ limit \in {1, 2}
    /\ chunk_minutes \in {1, 2}
    /\ avail = [i \in SymIdx |-> {}]
    /\ InitLocals
    /\ InitEval
    /\ InitBacktestIdle
    /\ InitAccountEmpty

NextTerm == Begin \/ OuterTest \/ InnerTest \/ FetchProgress \/ MergeEmit

\* The function is sequential code: it takes its next step whenever it has one,
\* and every request it makes is answered.
SpecTerm == InitTerm /\ [][NextTerm]_vars /\ WF_vars(NextTerm)

\* C25: with a source whose non-empty pages end at or after the requested since,
\* the build ends with the array closed; the cursor grows strictly with every
\* request that is followed by another for the same pair and sub-window, and
\* the sub-window's start grows strictly with every merge.
C25_BuilderTerminates ==
    /\ <>(pc = "done")
    /\ [](pc = "done" => f[Len(f)].kind = "close")
    /\ [][(pc = "fetch" /\ pc' = "inner") => since' > since]_vars
    /\ [][pc = "merge" => current_start' > current_start]_vars

\* C25 witness: a finished build with a record written, in which some page held
\* a candle older than the requested since.
C25_Witness ==
    /\ pc = "done"
    /\ ~sinceHonoured
    /\ Len(Recs(f)) >= 1

\* ------------------------------------------------- the order operations
\* config.SAFE_MARGIN
SAFE_MARGIN == 50

\* The ids the exchange gives its orders.
OrderIds == {"o1", "o2", "o3"}

\* The orders open on the exchange when the trader is constructed: one with its
\* symbol and one whose "symbol" entry is missing or empty.
OrdersAtStart == {[id |-> "o1", symbol |-> "BTC/USDT"], [id |-> "o2", symbol |-> ""]}

\* price * quantity of the limit orders asked for
OrderCosts == {10, 60}

\* Ids of no order the trader or the exchange holds.
FreshIds == OrderIds \ ({o.id : o \in exchange_open} \cup {o.id : o \in SetOf(active_orders)})

\* The order the exchange answers a placement of the instrument with.
NewOrder(id) == [id |-> id, symbol |-> "ETH/USDT"]

\* What no order operation touches.
orderFrame == <<buildVars, evalVars, btVars, balance, holdings, IS_SIMULATION>>

\* The operation returns `ret` having called `calls` and placed nothing.
NothingPlaced(op, ret, calls) ==
    /\ order_call' = [op |-> op, ret |-> ret]
    /\ exchange_calls' = exchange_calls \cup calls
    /\ UNCHANGED <<active_orders, exchange_open, orderFrame>>

\* exchange.create_order answered with an order: self.active_orders.append(order)
\* and the order is returned; on the exchange it is open unless filled at once.
OrderPlaced(op, calls) ==
    \E id \in FreshIds :
        /\ order_call' = [op |-> op, ret |-> "order"]
        /\ exchange_calls' = exchange_calls \cup calls \cup {"create_order"}
        /\ active_orders' = Append(active_orders, NewOrder(id))
        /\ exchange_open' \in {exchange_open, exchange_open \cup {NewOrder(id)}}
        /\ UNCHANGED orderFrame

\* if self.balance < (price * quantity if price else 0) + SAFE_MARGIN: raise;
\* a balance of None makes the comparison itself raise.
EnoughBalance(cost) == balance.tag = "num" /\ ~(balance.v < cost + SAFE_MARGIN)

\* place_limit_order, through _internal_place_order: None at once when
\* IS_SIMULATION; else None when a precision call, the balance check or
\* create_order raises, else the order, appended to active_orders.
PlaceLimitOrder ==
    \E cost \in OrderCosts :
        IF IS_SIMULATION
        THEN NothingPlaced("place_limit_order", "None", {})
        ELSE \/ NothingPlaced("place_limit_order", "None", {"amount_to_precision"})
             \/ /\ ~EnoughBalance(cost)
                /\ NothingPlaced("place_limit_order", "None",
                                 {"amount_to_precision", "price_to_precision"})
             \/ /\ EnoughBalance(cost)
                /\ NothingPlaced("place_limit_order", "None",
                                 {"amount_to_precision", "price_to_precision", "create_order"})
             \/ /\ EnoughBalance(cost)
                /\ OrderPlaced("place_limit_order",
                               {"amount_to_precision", "price_to_precision"})

\* place_market_order: an error dict for a size that is None or not positive, or
\* when fetch_ticker, create_market_order or fetch_order raises; else the result,
\* appended to active_orders unless the fetched order's status is "closed".
\* IS_SIMULATION is not read.
PlaceMarketOrder ==
    \/ NothingPlaced("place_market_order", "error", {})
    \/ NothingPlaced("place_market_order", "error", {"fetch_ticker"})
    \/ NothingPlaced("place_market_order", "error", {"fetch_ticker", "create_market_order"})
    \/ \E id \in FreshIds :
          /\ exchange_calls' =
                 exchange_calls \cup {"fetch_ticker", "create_market_order", "fetch_order"}
          /\ \/ /\ order_call' = [op |-> "place_market_order", ret |-> "error"]
                /\ exchange_open' \in {exchange_open, exchange_open \cup {NewOrder(id)}}
                /\ UNCHANGED active_orders
             \/ /\ order_call' = [op |-> "place_market_order", ret |-> "result"]
                /\ UNCHANGED <<active_orders, exchange_open>>
             \/ /\ order_call' = [op |-> "place_market_order", ret |-> "result"]
                /\ active_orders' = Append(active_orders, NewOrder(id))
                /\ exchange_open' = exchange_open \cup {NewOrder(id)}
          /\ UNCHANGED orderFrame

\* place_stop_loss_order and place_take_profit_order: None at once when
\* IS_SIMULATION; else None when amount_to_precision raises, the trigger price is
\* None, the side is not sell, or price_to_precision or create_order raises;
\* else the order, appended to active_orders.
PlaceTriggerOrder(op) ==
    IF IS_SIMULATION
    THEN NothingPlaced(op, "None", {})
    ELSE \/ NothingPlaced(op, "None", {"amount_to_precision"})
         \/ NothingPlaced(op, "None", {"amount_to_precision", "price_to_precision"})
         \/ NothingPlaced(op, "None",
                          {"amount_to_precision", "price_to_precision", "create_order"})
         \/ OrderPlaced(op, {"amount_to_precision", "price_to_precision"})

PlaceStopLossOrder == PlaceTriggerOrder("place_stop_loss_order")

PlaceTakeProfitOrder == PlaceTriggerOrder("place_take_profit_order")

\* cancel_all_orders: the open orders as get_open_orders answers them ([] when
\* the fetch raised); an order without a symbol is skipped, a cancel request
\* that raises is counted as failed; then active_orders.clear(), a second
\* get_open_orders whose answer is only logged, and True.
CancelAllOrders ==
    \E fetched \in BOOLEAN, failed \in SUBSET exchange_open :
        LET open_orders == IF fetched THEN exchange_open ELSE {}
            requested == {o \in open_orders : o.symbol # ""}
        IN /\ failed \subseteq requested
           /\ exchange_open' = exchange_open \ (requested \ failed)
           /\ active_orders' = <<>>
           /\ order_call' = [op |-> "cancel_all_orders", ret |-> "True"]
           /\ exchange_calls' =
                  exchange_calls \cup {"fetchOpenOrders"}
                      \cup (IF requested = {} THEN {} ELSE {"cancel_order"})
           /\ UNCHANGED orderFrame

\* A trader constructed on an exchange holding any of OrdersAtStart, with the
\* simulation flag either way, whose caller places and cancels orders.
InitOrders ==
    /\ start_dt = 0
    /\ end_dt = MsPerMinute
    /\ limit = 1
    /\ chunk_minutes = 1
    /\ avail = [i \in SymIdx |-> {}]
    /\ InitLocals
    /\ InitEval
    /\ InitBacktestIdle
    /\ \/ balance = PyNone /\ holdings = EmptyDict
       \/ \E usdt \in UsdtTotals : balance = Num(usdt) /\ holdings = Holdings(usdt)
    /\ exchange_open \in SUBSET OrdersAtStart
    /\ active_orders \in {ListOf(exchange_open), <<>>}
    /\ exchange_calls = InitCalls
    /\ IS_SIMULATION \in BOOLEAN
    /\ order_call = NoOrderCall

NextOrders ==
    \/ PlaceLimitOrder
    \/ PlaceMarketOrder
    \/ PlaceStopLossOrder
    \/ PlaceTakeProfitOrder
    \/ CancelAllOrders

SpecOrders == InitOrders /\ [][NextOrders]_vars

\* The methods of self.exchange that send an order to the exchange.
PlaceCalls == {"create_order", "create_market_order"}

\* C26 as claimed: while IS_SIMULATION is true, no order-placing operation has
\* sent an order to the exchange, and none adds an entry to active_orders.
C26_SimulationPlacesNoOrder ==
    /\ [](IS_SIMULATION => exchange_calls \cap PlaceCalls = {})
    /\ [][(IS_SIMULATION /\ order_call'.op # "cancel_all_orders") =>
              /\ active_orders' = active_orders
              /\ exchange_open' = exchange_open]_vars

\* C23 as claimed: when cancel_all_orders has returned True, no order is open on
\* the exchange and active_orders, emptied, agrees with the exchange's open set.
C23_CancelAllLeavesNoneOpen ==
    (order_call = [op |-> "cancel_all_orders", ret |-> "True"]) =>
        /\ exchange_open = {}
        /\ SetOf(active_orders) = exchange_open

====
